---- MODULE Spec2Model ----
(***************************************************************************)
(* Model of the sync engine of sync-airbnb.                                *)
(*                                                                         *)
(*   SpecHttp : one call of post_with_retry under the backoff decorator    *)
(*              (sync_airbnb/network/http_client.py).                      *)
(***************************************************************************)
EXTENDS Integers, Sequences, FiniteSets, TLC

(***************************************************************************)
(* Retrying request client: sync_airbnb/network/http_client.py             *)
(***************************************************************************)

\* backoff.on_exception(..., max_tries=5, ...)
max_tries == 5

RETRYABLE_STATUS_CODES == {500, 502, 503, 504}

\* Status codes the upstream answers with in the model: the success code, the
\* codes the client names, and one non-success code it does not name.
Statuses == {200, 401, 403, 404, 429} \cup RETRYABLE_STATUS_CODES

SuccessStatuses == {200}

\* Shapes of a response body as res.json() and the isinstance/"data" test see
\* them.
Bodies == {"invalid_json", "not_object", "no_data_key", "has_data"}

\* Statuses on which post_with_retry raises before it looks at the body.
BodyBlind == {401, 403, 429} \cup RETRYABLE_STATUS_CODES

\* What one HTTP attempt can meet: the transport fails (curl raises, a timeout
\* included), or a response arrives.
NetworkFailure == [net |-> FALSE, status |-> 0, body |-> "none"]

Responses ==
    {NetworkFailure}
    \cup {[net |-> TRUE, status |-> s, body |-> "none"] : s \in BodyBlind}
    \cup {[net |-> TRUE, status |-> s, body |-> b] : s \in Statuses \ BodyBlind, b \in Bodies}

NoResponse == [net |-> FALSE, status |-> -1, body |-> "none"]

Returned == [kind |-> "return", type |-> "dict", msg |-> "data"]

Raised(type, msg) == [kind |-> "raise", type |-> type, msg |-> msg]

NoResult == [kind |-> "none", type |-> "none", msg |-> "none"]

\* The body of post_with_retry, executed once: what it returns or raises for
\* the outcome r of its single curl_requests.post.
PostOnce(r) ==
    IF ~r.net THEN Raised("AirbnbRequestError", "Request failed")
    ELSE IF r.status \in {401, 403} THEN Raised("AirbnbRequestError", "Auth error")
    ELSE IF r.status = 429 THEN Raised("Exception", "Rate limit error")
    ELSE IF r.status \in RETRYABLE_STATUS_CODES THEN Raised("Exception", "Retryable error")
    ELSE IF r.body = "invalid_json" THEN Raised("AirbnbRequestError", "Invalid JSON response")
    ELSE IF r.body # "has_data" THEN Raised("AirbnbRequestError", "Unexpected response structure")
    ELSE Returned

\* backoff.on_exception(backoff.expo, (Exception,), max_tries=5): every
\* exception class of the client derives from Exception, so the decorator
\* retries whatever was raised until the number of tries reaches max_tries.
BackoffRetries(exc, n) == n < max_tries /\ exc.type \in {"Exception", "AirbnbRequestError", "AirbnbAuthError"}

\* A whole call of post_with_retry against an upstream that gives the same
\* answer r to every attempt; n is the number of the try being made.
RECURSIVE PostWithRetry(_, _)
PostWithRetry(r, n) ==
    LET out == PostOnce(r)
    IN  IF out.kind = "return" THEN out
        ELSE IF BackoffRetries(out, n) THEN PostWithRetry(r, n + 1)
        ELSE out

VARIABLES
    hpc,        \* position of the call: "idle", "sending", "waiting", "returned", "raised"
    tries,      \* backoff's try counter = number of HTTP attempts made so far
    hist,       \* what each finished attempt returned or raised, in order
    lastResp,   \* the upstream's answer to the latest attempt
    hresult     \* what the call handed to its caller

httpVars == <<hpc, tries, hist, lastResp, hresult>>

(***************************************************************************)
(* Sync orchestrator: sync_airbnb/services/insights.py and its             *)
(* collaborators                                                           *)
(***************************************************************************)

\* Largest number of listings the discovery query returns in the model.
MaxListings == 3

ListingIds == 1..MaxListings

\* METRIC_QUERIES, in the dict's insertion order.
METRIC_QUERIES ==
    << [query_type |-> "ChartQuery", metrics |-> <<"p3_impressions">>],
       [query_type |-> "ListOfMetricsQuery", metrics |-> <<"conversion_rate", "p3_impressions">>] >>

\* window_size_days=28 if query_type == "ChartQuery" else 7
WindowSizeDays(query_type) == IF query_type = "ChartQuery" THEN 28 ELSE 7

\* A horizon of two years, which no window reaches.
MAX_METRIC_OFFSET_DAYS_far == 2 * 365

MAX_METRIC_OFFSET_DAYS == 182

\* Polling windows a run is given by get_poll_window, as day numbers counted
\* from the Sunday of the scrape day's week: the current week alone
\* (LOOKBACK_WEEKS = LOOKAHEAD_WEEKS = 0), and a window whose lookahead of 26
\* weeks ends beyond the horizon of scrape_day + 182 days.
RunScrapeDay == 3

RunWindows == {[start |-> 0, end |-> 6], [start |-> 0, end |-> 188]}

\* A min that always takes its first argument.
Min_first(a, b) == a

Min(a, b) == IF a <= b THEN a ELSE b

AUTH_COOKIE_NAMES ==
    {"_airbed_session_id", "_aaj", "_aat", "auth_jitney_session_id", "hli", "li",
     "_user_attributes", "_pt", "rclu"}

\* A cookie string is the sequence of its name=value pairs; a cookie dict is
\* such a sequence with distinct names, in insertion order.
Pair(n, v) == [name |-> n, value |-> v]

\* dict[name] = value: an existing key keeps its place, a new key goes last.
DictSet(d, p) ==
    IF \E i \in 1..Len(d) : d[i].name = p.name
    THEN [i \in 1..Len(d) |-> IF d[i].name = p.name THEN p ELSE d[i]]
    ELSE Append(d, p)

RECURSIVE DictUpdate(_, _)
DictUpdate(d, ps) == IF ps = <<>> THEN d ELSE DictUpdate(DictSet(d, Head(ps)), Tail(ps))

parse_cookie_string(cookie_string) == DictUpdate(<<>>, cookie_string)

build_cookie_string(cookies) == cookies

\* Variant of IsAuthName: every cookie name passes.
IsAuthName_any(p) == TRUE

\* name in AUTH_COOKIE_NAMES
IsAuthName(p) == p.name \in AUTH_COOKIE_NAMES

filter_auth_cookies_only(cookies) == SelectSeq(cookies, IsAuthName)

\* The cookie string an account is stored with, as pasted from a browser: auth,
\* anti-bot and analytics cookies.
StoredCookieStrings ==
    { << Pair("_airbed_session_id", 1), Pair("bm_sv", 1), Pair("_ga", 1), Pair("_aaj", 1) >> }

\* Set-Cookie directives the session's jar absorbs during the preflight
\* navigation and the API calls of one run.
SetCookieDirectives ==
    << Pair("_aaj", 2), Pair("ak_bmsc", 2), Pair("bm_sv", 2), Pair("bm_sz", 2), Pair("_ga", 2) >>

\* lastSyncAt values: never synced, synced by an earlier run, stamped by the
\* run under observation.
NeverSynced == 0

SyncedBefore == 1

StampedNow == 2

\* The exception classes that travel through a run; all derive from Exception.
ExceptionClasses ==
    {"Exception", "AirbnbRequestError", "AirbnbAuthError", "ValueError",
     "KeyError", "OperationalError"}

NoErr == [type |-> "none", at |-> "none"]

\* Shapes of the envelope inside a response that has the top-level data key.
Envelopes == {"components", "auth_marker", "null_container", "malformed"}

\* get_first_component: the authentication-required marker and the container
\* that is explicitly null raise AirbnbAuthError; a path that cannot be
\* descended raises ValueError.
get_first_component(env) ==
    IF env \in {"auth_marker", "null_container"}
    THEN Raised("AirbnbAuthError", "Airbnb authentication failed")
    ELSE IF env = "malformed"
    THEN Raised("ValueError", "Could not resolve component structure")
    ELSE Returned

\* flatten_chart_query / flatten_list_of_metrics_query: the component is
\* extracted first, and a failure of the extraction is the failure of the
\* flattener.
flatten_metric(env) == get_first_component(env)

\* flatten_listing_ids wraps every exception, the authentication error
\* included, into ValueError.
flatten_listing_ids(env) ==
    LET c == get_first_component(env)
    IN  IF c.kind = "raise" THEN Raised("ValueError", "Failed to flatten listing IDs") ELSE c

\* What the upstream does to one API call: its answer to every HTTP attempt
\* of the call, and the envelope carried by an answer that has one.
UpstreamAnswers ==
    {[resp |-> r, env |-> "none"] : r \in {x \in Responses : PostOnce(x).kind = "raise"}}
    \cup {[resp |-> r, env |-> e] : r \in {x \in Responses : PostOnce(x).kind = "return"}, e \in Envelopes}

\* AirbnbSync.poll followed by AirbnbSync.flatten for a metric query.
poll_and_flatten(u) ==
    LET response == PostWithRetry(u.resp, 1)
    IN  IF response.kind = "raise" THEN response ELSE flatten_metric(u.env)

\* The upstream signalled an authentication failure on this call: a 401/403
\* status, or the marker / null container inside the envelope.
AuthFailureSignalled(u) ==
    \/ u.resp.net /\ u.resp.status \in {401, 403}
    \/ PostOnce(u.resp).kind = "return" /\ u.env \in {"auth_marker", "null_container"}

\* time.sleep(random.uniform(5, 10)) at the end of post_with_retry: reached
\* when the call returns its data, on no path that raises.
SleptAfterRequest(u) == PostWithRetry(u.resp, 1).kind = "return"

\* The outcomes of poll_and_flatten over everything the upstream can do to a
\* call, each with whether the upstream signalled an authentication failure.
PollOutcomes ==
    {[flat |-> poll_and_flatten(u), authSignal |-> AuthFailureSignalled(u),
      slept |-> SleptAfterRequest(u)] : u \in UpstreamAnswers}

\* fetch_listing_ids: poll("ListingsSectionQuery") followed by
\* flatten("ListingsSectionQuery", response).
fetch_listing_ids(u) ==
    LET response == PostWithRetry(u.resp, 1)
    IN  IF response.kind = "raise" THEN response ELSE flatten_listing_ids(u.env)

DiscoveryOutcomes == {fetch_listing_ids(u) : u \in UpstreamAnswers}

\* A handler of the metric call that catches nothing.
PollCatches_none(e) == FALSE

\* except Exception in poll_range_and_flatten: the handler of one metric call
\* catches every exception class and only logs it.
PollCatches(e) == e.type \in ExceptionClasses

\* A handler that takes every exception for an authentication error.
IsAuthError_any(e) == e.type \in ExceptionClasses

\* isinstance(e, AirbnbAuthError) in the listing loop's handler.
IsAuthError(e) == e.type = "AirbnbAuthError"

\* Display names order as the strings they stand for; sorted(listings.items(),
\* key=lambda x: x[1]) is a stable sort by name.
RECURSIVE SortByName(_)
SortByName(s) ==
    IF s = <<>> THEN <<>>
    ELSE LET least == CHOOSE i \in 1..Len(s) :
                         /\ \A j \in 1..Len(s) : s[i].name <= s[j].name
                         /\ \A j \in 1..(i - 1) : s[j].name # s[i].name
             rest  == [k \in 1..(Len(s) - 1) |-> IF k < least THEN s[k] ELSE s[k + 1]]
         IN  <<s[least]>> \o SortByName(rest)

\* Listing maps the discovery query yields: n listings, in the upstream's
\* order of ids 1..n, whose names descend as the ids ascend, so that the
\* sorted order differs from the order of discovery.
ListingMaps == {[i \in 1..n |-> [id |-> i, name |-> n + 1 - i]] : n \in 0..MaxListings}

VARIABLES
    pc,             \* position of run_insights_poller
    dryRun,         \* config.INSIGHTS_DRY_RUN
    window,         \* (window_start, window_end) of the run
    dbCookie,       \* accounts.airbnb_cookie in the account store
    dbLastSync,     \* accounts.last_sync_at in the account store
    dbChart,        \* listings with rows upserted into chart_query
    dbLom,          \* listings with rows upserted into list_of_metrics
    account,        \* the Account object the run was handed
    jar,            \* session.cookies
    listings,       \* sorted(listings.items(), key=name)
    idx,            \* position of the listing loop (1-based; 0 before the loop)
    pos,            \* position inside poll_range_and_flatten
    chunks,         \* poller._parsed_chunks
    results,        \* the results dict
    runErr,         \* the exception that left run_insights_poller
    jobsActive,     \* sync_jobs_active gauge
    storeLog,       \* calls made to the account store's writers, with outcome
    requests,       \* API calls issued: discovery and metric
    handled,        \* exceptions that reached the listing loop's handler
    preflightErr,   \* what create_preflight_session raised
    firstAuthAt,    \* loop position of the first authentication failure signalled
    pollFailAt,     \* loop positions at which a metric call failed without such a signal
    sinceRequest    \* "delay" when the run has slept since its last API call

runVars ==
    <<pc, dryRun, window, dbCookie, dbLastSync, dbChart, dbLom, account, jar, listings,
      idx, pos, chunks, results, runErr, jobsActive, storeLog, requests, handled,
      preflightErr, firstAuthAt, pollFailAt, sinceRequest>>

(***************************************************************************)
(* The service process: lifespan, the startup thread, the cron job and the *)
(* manual trigger endpoint, all for one account                            *)
(***************************************************************************)

\* Manual trigger requests the service receives.
MaxManual == 2

\* The clock counts ticks; the service is watched up to this tick.
MaxClock == 5

\* A day has a tick before the cron time and a tick from the cron time on.
TicksPerDay == 2

\* SYNC_CRON_HOUR:SYNC_CRON_MINUTE as a tick of the day.
CronTick == 1

Day(t) == t \div TicksPerDay

\* now.replace(hour=SYNC_CRON_HOUR, minute=SYNC_CRON_MINUTE, second=0, ...)
CronTimeToday(t) == Day(t) * TicksPerDay + CronTick

\* last_sync_at of an account that never synced (None).
NoLastSync == -1

Modes == {"admin", "worker", "hybrid"}

StartupThread == [name |-> "startup-sync", n |-> 0]

CronThread == [name |-> "sync_insights", n |-> 0]

ManualThreads == {[name |-> "manual-sync", n |-> i] : i \in 1..MaxManual}

Threads == {StartupThread, CronThread} \cup ManualThreads

\* The branches of run_sync_on_startup after the account checks: sync when
\* the account never synced, or when the last sync is from an earlier day and
\* today's cron time has passed.
StartupSyncNeeded(last_sync_at, t) ==
    IF last_sync_at = NoLastSync THEN TRUE
    ELSE IF Day(last_sync_at) < Day(t) THEN ~(t < CronTimeToday(t))
    ELSE FALSE

\* A startup decision that always syncs.
StartupDecision_always(last_sync_at, t, cron) == TRUE

\* The same branches for a cron time given as a tick of the day.
StartupDecision(last_sync_at, t, cron) ==
    IF last_sync_at = NoLastSync THEN TRUE
    ELSE IF Day(last_sync_at) < Day(t) THEN ~(t < Day(t) * TicksPerDay + cron)
    ELSE FALSE

VARIABLES
    MODE,               \* config.MODE
    svc,                \* the service: "down" before lifespan's startup part, then "up"
    accountRow,         \* the account's row: "missing", "inactive" or "active"
    lastSyncAt,         \* accounts.last_sync_at, a tick or NoLastSync
    now,                \* the clock
    th,                 \* where each thread is
    schedulerRunning,   \* scheduler.start() was called
    cronFiredAt,        \* the tick of the cron trigger's last firing
    joinTimedOut        \* threads on which a join(timeout=300) of the shutdown gave up

schedVars ==
    <<MODE, svc, accountRow, lastSyncAt, now, th, schedulerRunning, cronFiredAt, joinTimedOut>>

\* The service before the process started; the other specifications keep it
\* there.
SchedIdle ==
    /\ MODE = "hybrid"
    /\ svc = "down"
    /\ accountRow = "active"
    /\ lastSyncAt = NoLastSync
    /\ now = 0
    /\ th = [t \in Threads |-> "idle"]
    /\ schedulerRunning = FALSE
    /\ cronFiredAt = -1
    /\ joinTimedOut = {}

(***************************************************************************)
(* A single call of one function, for the functions whose result depends   *)
(* on their arguments alone                                                *)
(***************************************************************************)

VARIABLES
    callee,     \* the function called
    args,       \* its arguments
    ret         \* what it returned or raised; "pending" before the call

callVars == <<callee, args, ret>>

\* No function is being called; the other specifications keep it so.
CallIdle ==
    /\ callee = "none"
    /\ args = <<>>
    /\ ret = "pending"

vars == <<httpVars, runVars, schedVars, callVars>>

NoAccount == [airbnb_cookie |-> <<>>, last_sync_at |-> NeverSynced]

\* A results dict that starts with one success already counted.
NoResults_counted == [total_listings |-> 0, succeeded |-> 1, failed |-> 0, errors |-> <<>>]

NoResults == [total_listings |-> 0, succeeded |-> 0, failed |-> 0, errors |-> <<>>]

NoPos == [q |-> 0, current_start |-> 0, m |-> 0]

NoRequests == [discovery |-> 0, metric |-> 0]

\* Everything a run builds up, before the run has started.
RunFresh ==
    /\ pc = "idle"
    /\ dbChart = {}
    /\ dbLom = {}
    /\ account = NoAccount
    /\ jar = <<>>
    /\ listings = <<>>
    /\ idx = 0
    /\ pos = NoPos
    /\ chunks = <<>>
    /\ results = NoResults
    /\ runErr = NoErr
    /\ jobsActive = 0
    /\ storeLog = <<>>
    /\ requests = NoRequests
    /\ handled = <<>>
    /\ preflightErr = "none"
    /\ firstAuthAt = 0
    /\ pollFailAt = {}
    /\ sinceRequest = "delay"

RunIdle ==
    /\ RunFresh
    /\ dryRun = FALSE
    /\ window = [start |-> 0, end |-> 6]
    /\ dbCookie = <<>>
    /\ dbLastSync = NeverSynced

HttpIdle ==
    /\ hpc = "idle"
    /\ tries = 0
    /\ hist = <<>>
    /\ lastResp = NoResponse
    /\ hresult = NoResult

HttpInit == HttpIdle /\ RunIdle /\ SchedIdle /\ CallIdle

\* A caller invokes post_with_retry(url, json, headers, ...).
HttpCall ==
    /\ hpc = "idle"
    /\ hpc' = "sending"
    /\ UNCHANGED <<tries, hist, lastResp, hresult>>
    /\ UNCHANGED <<runVars, schedVars, callVars>>

\* One pass of the decorator's loop: tries += 1, the function body runs once
\* (one HTTP attempt), and the decorator returns the value, re-raises, or
\* decides to back off.
HttpAttempt ==
    /\ hpc = "sending"
    /\ \E r \in Responses :
        LET out == PostOnce(r)
            n   == tries + 1
        IN  /\ tries' = n
            /\ lastResp' = r
            /\ hist' = Append(hist, out)
            /\ IF out.kind = "return"
                  THEN hpc' = "returned" /\ hresult' = out
                  ELSE IF BackoffRetries(out, n)
                          THEN hpc' = "waiting" /\ hresult' = NoResult
                          ELSE hpc' = "raised" /\ hresult' = out
    /\ UNCHANGED <<runVars, schedVars, callVars>>

\* on_backoff (_log_retry) and the exponential sleep, then the next try.
HttpBackoff ==
    /\ hpc = "waiting"
    /\ hpc' = "sending"
    /\ UNCHANGED <<tries, hist, lastResp, hresult>>
    /\ UNCHANGED <<runVars, schedVars, callVars>>

HttpNext == HttpCall \/ HttpAttempt \/ HttpBackoff

SpecHttp == HttpInit /\ [][HttpNext]_vars

(***************************************************************************)
(* run_insights_poller, one run                                            *)
(***************************************************************************)

RunInit ==
    /\ HttpIdle
    /\ SchedIdle
    /\ CallIdle
    /\ RunFresh
    /\ dryRun \in BOOLEAN
    /\ window \in RunWindows
    /\ dbCookie \in StoredCookieStrings
    /\ dbLastSync \in {NeverSynced, SyncedBefore}

\* Label names errors_total is declared with (sync_airbnb/metrics.py); a
\* Counter's labels(**kwargs) raises ValueError('Incorrect label names')
\* unless the keywords are exactly the declared names.
errors_total_labelnames == {"error_type", "component"}

LabelsAccepted(given) == given = errors_total_labelnames

\* An update_last_sync that never writes.
update_last_sync_noop(current, dry) == current

\* update_last_sync: the value of last_sync_at it leaves behind.
update_last_sync(current, dry) == IF dry THEN current ELSE StampedNow

\* insert_chart_query_rows / insert_list_of_metrics_rows: nothing reaches the
\* database for an empty row list or in dry-run mode; otherwise the upsert is
\* committed or its exception re-raised.
insert_rows(hasRows, dry, dbOk) ==
    IF ~hasRows \/ dry THEN "skipped"
    ELSE IF dbOk THEN "written"
    ELSE "raised"

HasChunk(query_type) == \E i \in 1..Len(chunks) : chunks[i].query_type = query_type

\* The caller read the account from the store and called run_insights_poller:
\* the gauge is raised, the stored cookies are parsed and filtered.
RunStart ==
    /\ pc = "idle"
    /\ account' = [airbnb_cookie |-> dbCookie, last_sync_at |-> dbLastSync]
    /\ jobsActive' = jobsActive + 1
    /\ pc' = "preflight"
    /\ UNCHANGED <<dryRun, window, dbCookie, dbLastSync, dbChart, dbLom, jar, listings, idx,
                   pos, chunks, results, runErr, storeLog, requests, handled, preflightErr,
                   firstAuthAt, pollFailAt, sinceRequest>>
    /\ UNCHANGED <<httpVars, schedVars, callVars>>

\* create_preflight_session and the two except clauses around it.
Preflight ==
    /\ pc = "preflight"
    /\ \E outcome \in {"session", "AirbnbAuthError", "Exception"} :
        IF outcome = "session"
        THEN /\ jar' = DictUpdate(filter_auth_cookies_only(parse_cookie_string(account.airbnb_cookie)),
                                  SetCookieDirectives)
             /\ pc' = "discover"
             /\ UNCHANGED <<runErr, jobsActive, preflightErr>>
        ELSE /\ preflightErr' = outcome
             /\ pc' = "raised"
             /\ IF LabelsAccepted({"error_type"})
                  THEN /\ jobsActive' = jobsActive - 1
                       /\ runErr' = [type |-> outcome, at |-> "preflight"]
                  ELSE /\ jobsActive' = jobsActive
                       /\ runErr' = [type |-> "ValueError", at |-> "preflight"]
             /\ jar' = jar
    /\ UNCHANGED <<dryRun, window, dbCookie, dbLastSync, dbChart, dbLom, account, listings, idx,
                   pos, chunks, results, storeLog, requests, handled,
                   firstAuthAt, pollFailAt, sinceRequest>>
    /\ UNCHANGED <<httpVars, schedVars, callVars>>

\* AirbnbSync(...) and fetch_listing_ids(), then the empty-map return or the
\* set-up of the results dict and of the sorted listing loop.
Discover ==
    /\ pc = "discover"
    /\ requests' = [requests EXCEPT !.discovery = @ + 1]
    /\ \E flat \in DiscoveryOutcomes, m \in ListingMaps :
            IF flat.kind = "raise"
            THEN /\ pc' = "raised"
                 /\ runErr' = [type |-> flat.type, at |-> "discover"]
                 /\ UNCHANGED <<listings, idx, results>>
            ELSE IF m = <<>>
            THEN /\ pc' = "returned"
                 /\ results' = NoResults
                 /\ UNCHANGED <<listings, idx, runErr>>
            ELSE /\ listings' = SortByName(m)
                 /\ results' = [NoResults EXCEPT !.total_listings = Len(m)]
                 /\ idx' = 1
                 /\ pc' = "listing"
                 /\ runErr' = runErr
    /\ UNCHANGED <<dryRun, window, dbCookie, dbLastSync, dbChart, dbLom, account, jar, pos,
                   chunks, jobsActive, storeLog, handled, preflightErr,
                   firstAuthAt, pollFailAt, sinceRequest>>
    /\ UNCHANGED <<httpVars, schedVars, callVars>>

\* A finally clause that leaves the accumulator as it is.
parsed_chunks_clear_kept == chunks

\* poller._parsed_chunks.clear() in the finally clause.
parsed_chunks_clear == <<>>

\* The sleep of the finally clause, taken after every listing but the last.
SleepBetweenListings == IF idx < Len(listings) THEN "delay" ELSE sinceRequest

\* The finally clause of the loop body and the step to the next listing.
LoopAdvance ==
    /\ chunks' = parsed_chunks_clear
    /\ pos' = NoPos
    /\ sinceRequest' = SleepBetweenListings
    /\ IF idx < Len(listings)
         THEN idx' = idx + 1 /\ pc' = "listing"
         ELSE idx' = idx /\ pc' = "cookies"

\* except Exception as e in the loop body: an authentication error is
\* re-raised, anything else is counted and recorded.
ListingRaises(e) ==
    /\ handled' = Append(handled, [at |-> idx, type |-> e.type])
    /\ IF IsAuthError(e)
         THEN /\ runErr' = [type |-> e.type, at |-> "listing"]
              /\ pc' = "raised"
              /\ chunks' = parsed_chunks_clear
              /\ pos' = NoPos
              /\ sinceRequest' = SleepBetweenListings
              /\ UNCHANGED <<idx, results>>
         ELSE /\ results' = [results EXCEPT
                                !.failed = @ + 1,
                                !.errors = Append(@, [listing_id   |-> listings[idx].id,
                                                      listing_name |-> listings[idx].name,
                                                      error        |-> e.msg,
                                                      error_type   |-> e.type])]
              /\ runErr' = runErr
              /\ LoopAdvance

\* The end of the try body: the listing is counted as succeeded.
ListingSucceeds ==
    /\ results' = [results EXCEPT !.succeeded = @ + 1]
    /\ UNCHANGED <<runErr, handled>>
    /\ LoopAdvance

\* The loop body is entered for listings[idx]; the first call of
\* poll_range_and_flatten checks the horizon before its window loop.
BeginListing ==
    /\ pc = "listing"
    /\ IF window.end > RunScrapeDay + MAX_METRIC_OFFSET_DAYS
         THEN ListingRaises(Raised("ValueError", "Polling end date exceeds Airbnb offset limit"))
         ELSE /\ pc' = "poll"
              /\ pos' = [q |-> 1, current_start |-> window.start, m |-> 1]
              /\ UNCHANGED <<idx, chunks, results, runErr, handled, sinceRequest>>
    /\ UNCHANGED <<dryRun, window, dbCookie, dbLastSync, dbChart, dbLom, account, jar, listings,
                   jobsActive, storeLog, requests, preflightErr,
                   firstAuthAt, pollFailAt>>
    /\ UNCHANGED <<httpVars, schedVars, callVars>>

\* One pass of the inner loop of poll_range_and_flatten: poll_and_flatten for
\* one (sub-window, metric) inside try/except, then the step to the next
\* metric, sub-window or query type.
PollCall ==
    /\ pc = "poll"
    /\ requests' = [requests EXCEPT !.metric = @ + 1]
    /\ \E o \in PollOutcomes :
        LET Q           == METRIC_QUERIES[pos.q]
            current_end == Min(pos.current_start + WindowSizeDays(Q.query_type) - 1, window.end)
            flat        == o.flat
            chunk       == [listing_id   |-> listings[idx].id,
                            query_type   |-> Q.query_type,
                            window_start |-> pos.current_start,
                            window_end   |-> current_end,
                            metric       |-> Q.metrics[pos.m]]
            authFail    == o.authSignal
            otherFail   == flat.kind = "raise" /\ ~authFail
        IN  /\ firstAuthAt' = IF authFail /\ firstAuthAt = 0 THEN idx ELSE firstAuthAt
            /\ pollFailAt' = IF otherFail THEN pollFailAt \cup {idx} ELSE pollFailAt
            /\ IF flat.kind = "raise" /\ ~PollCatches(flat)
                 THEN ListingRaises(flat)
                 ELSE /\ chunks' = IF flat.kind = "return" THEN Append(chunks, chunk) ELSE chunks
                      /\ IF pos.m < Len(Q.metrics)
                           THEN pos' = [pos EXCEPT !.m = @ + 1] /\ pc' = "poll"
                           ELSE IF current_end + 1 <= window.end
                           THEN pos' = [pos EXCEPT !.current_start = current_end + 1, !.m = 1]
                                /\ pc' = "poll"
                           ELSE IF pos.q < Len(METRIC_QUERIES)
                           THEN pos' = [q |-> pos.q + 1, current_start |-> window.start, m |-> 1]
                                /\ pc' = "poll"
                           ELSE pos' = NoPos /\ pc' = "persist"
                      /\ sinceRequest' = IF o.slept THEN "delay" ELSE "none"
                      /\ UNCHANGED <<idx, results, runErr, handled>>
    /\ UNCHANGED <<dryRun, window, dbCookie, dbLastSync, dbChart, dbLom, account, jar, listings,
                   jobsActive, storeLog, preflightErr>>
    /\ UNCHANGED <<httpVars, schedVars, callVars>>

\* The rest of the try body: parse_all, the two inserts, the success count;
\* then the handler or the finally clause.
Persist ==
    /\ pc = "persist"
    /\ \E parseOk \in BOOLEAN, chartOk \in BOOLEAN, lomOk \in BOOLEAN :
        LET lid   == listings[idx].id
            chart == insert_rows(HasChunk("ChartQuery"), dryRun, chartOk)
            lom   == insert_rows(HasChunk("ListOfMetricsQuery"), dryRun, lomOk)
        IN  IF ~parseOk
            THEN ListingRaises(Raised("KeyError", "parse_all")) /\ UNCHANGED <<dbChart, dbLom>>
            ELSE IF chart = "raised"
            THEN ListingRaises(Raised("OperationalError", "chart_query upsert"))
                 /\ UNCHANGED <<dbChart, dbLom>>
            ELSE /\ dbChart' = IF chart = "written" THEN dbChart \cup {lid} ELSE dbChart
                 /\ IF lom = "raised"
                      THEN ListingRaises(Raised("OperationalError", "list_of_metrics upsert"))
                           /\ dbLom' = dbLom
                      ELSE /\ dbLom' = IF lom = "written" THEN dbLom \cup {lid} ELSE dbLom
                           /\ ListingSucceeds
    /\ UNCHANGED <<dryRun, window, dbCookie, dbLastSync, account, jar, listings, jobsActive,
                   storeLog, requests, preflightErr, firstAuthAt, pollFailAt>>
    /\ UNCHANGED <<httpVars, schedVars, callVars>>

\* Steps 4-7 after the loop: the jar is read, filtered to the auth names,
\* built into a string and written by update_account_cookies.
SaveCookies ==
    /\ pc = "cookies"
    /\ \E dbOk \in BOOLEAN :
        IF dbOk
        THEN /\ dbCookie' = build_cookie_string(filter_auth_cookies_only(jar))
             /\ storeLog' = Append(storeLog, "cookies_written")
             /\ pc' = "stamp"
             /\ runErr' = runErr
        ELSE /\ dbCookie' = dbCookie
             /\ storeLog' = Append(storeLog, "cookies_failed")
             /\ pc' = "raised"
             /\ runErr' = [type |-> "OperationalError", at |-> "cookies"]
    /\ UNCHANGED <<dryRun, window, dbLastSync, dbChart, dbLom, account, jar, listings, idx, pos,
                   chunks, results, jobsActive, requests, handled, preflightErr,
                   firstAuthAt, pollFailAt, sinceRequest>>
    /\ UNCHANGED <<httpVars, schedVars, callVars>>

\* update_last_sync, then the duration metric, the gauge and the return.
StampLastSync ==
    /\ pc = "stamp"
    /\ \E dbOk \in BOOLEAN :
        IF dryRun \/ dbOk
        THEN /\ dbLastSync' = update_last_sync(dbLastSync, dryRun)
             /\ storeLog' = Append(storeLog, IF dryRun THEN "last_sync_dry_run" ELSE "last_sync_stamped")
             /\ jobsActive' = jobsActive - 1
             /\ pc' = "returned"
             /\ runErr' = runErr
        ELSE /\ dbLastSync' = dbLastSync
             /\ storeLog' = Append(storeLog, "last_sync_failed")
             /\ jobsActive' = jobsActive
             /\ pc' = "raised"
             /\ runErr' = [type |-> "OperationalError", at |-> "last_sync"]
    /\ UNCHANGED <<dryRun, window, dbCookie, dbChart, dbLom, account, jar, listings, idx, pos,
                   chunks, results, requests, handled, preflightErr,
                   firstAuthAt, pollFailAt, sinceRequest>>
    /\ UNCHANGED <<httpVars, schedVars, callVars>>

Next ==
    \/ RunStart
    \/ Preflight
    \/ Discover
    \/ BeginListing
    \/ PollCall
    \/ Persist
    \/ SaveCookies
    \/ StampLastSync

Spec == RunInit /\ [][Next]_vars

(***************************************************************************)
(* The service process                                                     *)
(***************************************************************************)

SchedInit ==
    /\ HttpIdle
    /\ RunIdle
    /\ CallIdle
    /\ MODE \in Modes
    /\ svc = "down"
    /\ accountRow \in {"missing", "inactive", "active"}
    /\ now \in {TicksPerDay, TicksPerDay + 1}
    /\ lastSyncAt \in IF accountRow = "missing" THEN {NoLastSync} ELSE {NoLastSync} \cup 0..now
    /\ th = [t \in Threads |-> "idle"]
    /\ schedulerRunning = FALSE
    /\ cronFiredAt = -1
    /\ joinTimedOut = {}

InFlight == {t \in Threads : th[t] = "running"}

\* What a caller of run_insights_poller does before the call: the account is
\* looked up, a missing or inactive account ends the caller, otherwise the
\* run is entered.
EnterRunOrReturn(t) ==
    th' = [th EXCEPT ![t] = IF accountRow = "active" THEN "running" ELSE "finished"]

\* lifespan, up to the yield: in worker and hybrid mode the startup thread is
\* started and the scheduler is configured and started.
LifespanStart ==
    /\ svc = "down"
    /\ svc' = "up"
    /\ IF MODE \in {"worker", "hybrid"}
         THEN /\ th' = [th EXCEPT ![StartupThread] = "spawned"]
              /\ schedulerRunning' = TRUE
         ELSE UNCHANGED <<th, schedulerRunning>>
    /\ UNCHANGED <<MODE, accountRow, lastSyncAt, now, cronFiredAt>>
    /\ UNCHANGED <<joinTimedOut, httpVars, runVars, callVars>>

\* run_sync_on_startup, up to its call of run_insights_poller or its return.
run_sync_on_startup ==
    /\ th[StartupThread] = "spawned"
    /\ IF accountRow = "active" /\ ~StartupSyncNeeded(lastSyncAt, now)
         THEN th' = [th EXCEPT ![StartupThread] = "finished"]
         ELSE EnterRunOrReturn(StartupThread)
    /\ UNCHANGED <<MODE, svc, accountRow, lastSyncAt, now, schedulerRunning, cronFiredAt>>
    /\ UNCHANGED <<joinTimedOut, httpVars, runVars, callVars>>

\* Time passes.
ClockTick ==
    /\ svc = "up"
    /\ now < MaxClock
    /\ now' = now + 1
    /\ UNCHANGED <<MODE, svc, accountRow, lastSyncAt, th, schedulerRunning, cronFiredAt>>
    /\ UNCHANGED <<joinTimedOut, httpVars, runVars, callVars>>

\* The cron trigger added by setup_scheduler fires at the cron time: the
\* scheduler starts sync_insights_job unless the previous instance of the job
\* is still running (one instance per job).
CronFire ==
    /\ schedulerRunning
    /\ now = CronTimeToday(now)
    /\ cronFiredAt # now
    /\ cronFiredAt' = now
    /\ IF th[CronThread] \in {"idle", "finished"}
         THEN th' = [th EXCEPT ![CronThread] = "spawned"]
         ELSE th' = th
    /\ UNCHANGED <<MODE, svc, accountRow, lastSyncAt, now, schedulerRunning>>
    /\ UNCHANGED <<joinTimedOut, httpVars, runVars, callVars>>

\* sync_insights_job, up to its call of run_insights_poller or its return.
sync_insights_job ==
    /\ th[CronThread] = "spawned"
    /\ EnterRunOrReturn(CronThread)
    /\ UNCHANGED <<MODE, svc, accountRow, lastSyncAt, now, schedulerRunning, cronFiredAt>>
    /\ UNCHANGED <<joinTimedOut, httpVars, runVars, callVars>>

\* POST /accounts/{account_id}/sync: the route exists in admin and hybrid
\* mode; a missing account is answered 404, an inactive one 400, otherwise a
\* thread is started and 202 is answered.
trigger_sync(t) ==
    /\ svc = "up"
    /\ MODE \in {"admin", "hybrid"}
    /\ th[t] = "idle"
    /\ th' = [th EXCEPT ![t] = IF accountRow = "active" THEN "spawned" ELSE "rejected"]
    /\ UNCHANGED <<MODE, svc, accountRow, lastSyncAt, now, schedulerRunning, cronFiredAt>>
    /\ UNCHANGED <<joinTimedOut, httpVars, runVars, callVars>>

\* run_sync, the body of a manual thread, up to its call of
\* run_insights_poller with the account the endpoint looked up.
run_sync(t) ==
    /\ th[t] = "spawned"
    /\ th' = [th EXCEPT ![t] = "running"]
    /\ UNCHANGED <<MODE, svc, accountRow, lastSyncAt, now, schedulerRunning, cronFiredAt>>
    /\ UNCHANGED <<joinTimedOut, httpVars, runVars, callVars>>

\* run_insights_poller ends in thread t: it returns, having stamped
\* last_sync_at unless INSIGHTS_DRY_RUN is set, or it raises and the caller's
\* except clause logs the error.
RunEnds(t) ==
    /\ th[t] = "running"
    /\ th' = [th EXCEPT ![t] = "finished"]
    /\ \E returned \in BOOLEAN :
        lastSyncAt' = IF returned /\ ~dryRun THEN now ELSE lastSyncAt
    /\ UNCHANGED <<MODE, svc, accountRow, now, schedulerRunning, cronFiredAt>>
    /\ UNCHANGED <<joinTimedOut, httpVars, runVars, callVars>>

\* The threads active_threads holds that are still alive: the startup thread
\* until it is done. The threads of the manual trigger are kept in
\* _manual_sync_threads, a list that the shutdown code does not read.
AliveInActiveThreads == {t \in {StartupThread} : th[t] \in {"spawned", "running"}}

\* lifespan after the yield: the shutdown part starts.
LifespanShutdown ==
    /\ svc = "up"
    /\ svc' = "stopping_lifespan"
    /\ UNCHANGED <<MODE, accountRow, lastSyncAt, now, th, schedulerRunning, cronFiredAt,
                   joinTimedOut>>
    /\ UNCHANGED <<httpVars, runVars, callVars>>

\* scheduler.shutdown(wait=True) in lifespan: it returns when no job of the
\* scheduler is executing any more.
SchedulerShutdownWait ==
    /\ svc = "stopping_lifespan"
    /\ schedulerRunning
    /\ th[CronThread] \notin {"spawned", "running"}
    /\ schedulerRunning' = FALSE
    /\ UNCHANGED <<MODE, svc, accountRow, lastSyncAt, now, th, cronFiredAt, joinTimedOut>>
    /\ UNCHANGED <<httpVars, runVars, callVars>>

\* handle_shutdown_signal on SIGTERM / SIGINT, up to its loop over
\* active_threads: scheduler.shutdown(wait=False) does not wait for a job that
\* is executing.
handle_shutdown_signal ==
    /\ svc = "up"
    /\ svc' = "stopping_signal"
    /\ schedulerRunning' = FALSE
    /\ UNCHANGED <<MODE, accountRow, lastSyncAt, now, th, cronFiredAt, joinTimedOut>>
    /\ UNCHANGED <<httpVars, runVars, callVars>>

\* thread.join(timeout=300) on a thread of active_threads returns with the
\* thread still alive.
JoinTimesOut(t) ==
    /\ svc \in {"stopping_lifespan", "stopping_signal"}
    /\ ~schedulerRunning
    /\ t \in AliveInActiveThreads
    /\ t \notin joinTimedOut
    /\ joinTimedOut' = joinTimedOut \cup {t}
    /\ UNCHANGED <<MODE, svc, accountRow, lastSyncAt, now, th, schedulerRunning, cronFiredAt>>
    /\ UNCHANGED <<httpVars, runVars, callVars>>

\* The loop over active_threads is over, every thread of it having ended or
\* its join having timed out: "Graceful shutdown complete", and lifespan
\* returns or sys.exit(0) is called.
ShutdownComplete ==
    /\ svc \in {"stopping_lifespan", "stopping_signal"}
    /\ ~schedulerRunning
    /\ AliveInActiveThreads \subseteq joinTimedOut
    /\ svc' = "stopped"
    /\ UNCHANGED <<MODE, accountRow, lastSyncAt, now, th, schedulerRunning, cronFiredAt,
                   joinTimedOut>>
    /\ UNCHANGED <<httpVars, runVars, callVars>>

SchedNext ==
    \/ LifespanStart
    \/ run_sync_on_startup
    \/ ClockTick
    \/ CronFire
    \/ sync_insights_job
    \/ \E t \in ManualThreads : trigger_sync(t)
    \/ \E t \in ManualThreads : run_sync(t)
    \/ \E t \in Threads : RunEnds(t)
    \/ LifespanShutdown
    \/ SchedulerShutdownWait
    \/ handle_shutdown_signal
    \/ \E t \in Threads : JoinTimesOut(t)
    \/ ShutdownComplete

SpecSched == SchedInit /\ [][SchedNext]_vars

(***************************************************************************)
(* The startup decision of run_sync_on_startup as a function of the        *)
(* account's last_sync_at, the clock and the cron time                     *)
(***************************************************************************)

StartupCallInit ==
    /\ HttpIdle
    /\ RunIdle
    /\ SchedIdle
    /\ callee = "run_sync_on_startup"
    /\ args \in [last_sync_at : {NoLastSync} \cup 0..MaxClock,
                 now          : 0..MaxClock,
                 cron         : 0..(TicksPerDay - 1)]
    /\ ret = "pending"

StartupCall ==
    /\ callee = "run_sync_on_startup"
    /\ ret = "pending"
    /\ ret' = IF StartupDecision(args.last_sync_at, args.now, args.cron) THEN "sync" ELSE "skip"
    /\ UNCHANGED <<callee, args>>
    /\ UNCHANGED <<httpVars, runVars, schedVars>>

SpecStartup == StartupCallInit /\ [][StartupCall]_vars

(***************************************************************************)
(* create_preflight_session(user_agent, auth_cookies, timeout)             *)
(***************************************************************************)

\* Auth cookie dicts handed to create_preflight_session.
PreflightCookieDicts ==
    { <<>>,
      << Pair("_airbed_session_id", 1) >>,
      << Pair("_airbed_session_id", 1), Pair("_aaj", 1) >>,
      << Pair("_airbed_session_id", 1), Pair("_aaj", 1), Pair("_aat", 1) >> }

\* Final URLs of the navigation after redirects.
PreflightUrls == {"/hosting/insights", "/performance", "/login", "/authenticate"}

\* A test of the final URL that never finds a login page.
IsLoginUrl_never(url) == FALSE

\* "login" in the final URL or "authenticate" in it.
IsLoginUrl(url) == url \in {"/login", "/authenticate"}

\* What session.get does: it raises, or it is answered with a status, a
\* final URL and Set-Cookie directives.
PreflightGets ==
    {[raises |-> TRUE, status |-> 0, url |-> "none", set_cookie |-> <<>>]}
    \cup {[raises |-> FALSE, status |-> st, url |-> u, set_cookie |-> sc] :
             st \in {200, 500}, u \in PreflightUrls,
             sc \in {<<>>, << Pair("ak_bmsc", 2), Pair("bm_sv", 2) >>}}

PreflightCallInit ==
    /\ HttpIdle
    /\ RunIdle
    /\ SchedIdle
    /\ callee = "create_preflight_session"
    /\ args \in [auth_cookies : PreflightCookieDicts, get : PreflightGets]
    /\ ret = [stage |-> "created", jar |-> <<>>, sent |-> <<>>, out |-> "none"]

\* session.cookies.set(name, value, domain=".airbnb.com") for every auth
\* cookie supplied.
PreflightLoadCookies ==
    /\ callee = "create_preflight_session"
    /\ ret.stage = "created"
    /\ ret' = [ret EXCEPT !.stage = "loaded", !.jar = DictUpdate(@, args.auth_cookies)]
    /\ UNCHANGED <<callee, args>>
    /\ UNCHANGED <<httpVars, runVars, schedVars>>

\* session.get(url, allow_redirects=True, timeout=timeout): the request
\* carries the jar; an exception of the GET leaves the function; the jar
\* absorbs the Set-Cookie directives of the answer.
PreflightGet ==
    /\ callee = "create_preflight_session"
    /\ ret.stage = "loaded"
    /\ IF args.get.raises
         THEN ret' = [ret EXCEPT !.stage = "done", !.sent = ret.jar, !.out = "Exception"]
         ELSE ret' = [ret EXCEPT !.stage = "answered", !.sent = ret.jar,
                                 !.jar = DictUpdate(@, args.get.set_cookie)]
    /\ UNCHANGED <<callee, args>>
    /\ UNCHANGED <<httpVars, runVars, schedVars>>

\* The tests of the answer: response.raise_for_status() and the test of the
\* final URL, in either order; then the session is returned.
PreflightDecide ==
    /\ callee = "create_preflight_session"
    /\ ret.stage = "answered"
    /\ \E statusFirst \in BOOLEAN :
        LET bad   == args.get.status >= 400
            login == IsLoginUrl(args.get.url)
        IN  ret' = [ret EXCEPT !.stage = "done",
                               !.out = IF bad /\ login
                                       THEN (IF statusFirst THEN "HTTPError" ELSE "AirbnbAuthError")
                                       ELSE IF bad THEN "HTTPError"
                                       ELSE IF login THEN "AirbnbAuthError"
                                       ELSE "session"]
    /\ UNCHANGED <<callee, args>>
    /\ UNCHANGED <<httpVars, runVars, schedVars>>

PreflightNext == PreflightLoadCookies \/ PreflightGet \/ PreflightDecide

SpecPreflight == PreflightCallInit /\ [][PreflightNext]_vars

(***************************************************************************)
(* The window loop of poll_range_and_flatten as a function of start_date,  *)
(* end_date and window_size_days                                           *)
(***************************************************************************)

\* Largest day number of a polled range.
MaxChunkDay == 20

\* Largest window_size_days.
MaxWindowSize == 8

ChunkCallInit ==
    /\ HttpIdle
    /\ RunIdle
    /\ SchedIdle
    /\ callee = "poll_range_and_flatten"
    /\ args \in {a \in [start_date : 1..MaxChunkDay, end_date : 1..MaxChunkDay,
                        window_size_days : 1..MaxWindowSize] : a.start_date <= a.end_date}
    /\ ret = [current_start |-> args.start_date, windows |-> <<>>, done |-> FALSE]

\* One test of the while condition and, when it holds, one pass of the loop:
\* current_end = min(current_start + window_size_days - 1, end_date), the
\* metrics are polled for (current_start, current_end), and current_start
\* moves to the day after current_end.
ChunkLoop ==
    /\ callee = "poll_range_and_flatten"
    /\ ~ret.done
    /\ IF ret.current_start <= args.end_date
         THEN LET current_end == Min(ret.current_start + args.window_size_days - 1, args.end_date)
              IN  ret' = [ret EXCEPT
                            !.windows = Append(@, [start |-> ret.current_start, end |-> current_end]),
                            !.current_start = current_end + 1]
         ELSE ret' = [ret EXCEPT !.done = TRUE]
    /\ UNCHANGED <<callee, args>>
    /\ UNCHANGED <<httpVars, runVars, schedVars>>

SpecChunk == ChunkCallInit /\ [][ChunkLoop]_vars

(***************************************************************************)
(* poll_range_and_flatten with its metrics, over every pair of dates: the  *)
(* calls of poll_and_flatten it makes                                      *)
(***************************************************************************)

\* A step of the window loop that stays on the last day of its window.
NextStart_sameDay(current_end) == current_end

\* current_start = current_end + timedelta(days=1)
NextStart(current_end) == current_end + 1

PollRangeCallInit ==
    /\ HttpIdle
    /\ RunIdle
    /\ SchedIdle
    /\ callee = "poll_range_and_flatten"
    /\ args \in [start_date : 1..MaxChunkDay, end_date : 1..MaxChunkDay,
                 window_size_days : 1..MaxWindowSize,
                 metrics : {METRIC_QUERIES[q].metrics : q \in 1..Len(METRIC_QUERIES)}]
    /\ ret = [current_start |-> args.start_date, calls |-> 0, done |-> FALSE]

\* One test of the while condition and, when it holds, one pass of the loop
\* with its inner loop over the metrics: one call of poll_and_flatten per
\* metric, each inside try/except.
PollRangePass ==
    /\ callee = "poll_range_and_flatten"
    /\ ~ret.done
    /\ IF ret.current_start <= args.end_date
         THEN LET current_end == Min(ret.current_start + args.window_size_days - 1, args.end_date)
              IN  ret' = [ret EXCEPT !.calls = @ + Len(args.metrics),
                                     !.current_start = NextStart(current_end)]
         ELSE ret' = [ret EXCEPT !.done = TRUE]
    /\ UNCHANGED <<callee, args>>
    /\ UNCHANGED <<httpVars, runVars, schedVars>>

\* The loop runs in one thread that nothing suspends: a pass that can be
\* taken is taken.
SpecPollRange == PollRangeCallInit /\ [][PollRangePass]_vars /\ WF_vars(PollRangePass)

(***************************************************************************)
(* The polling window of a run: get_poll_window and its call in            *)
(* run_insights_poller                                                     *)
(***************************************************************************)

LOOKBACK_WEEKS == 25

LOOKAHEAD_WEEKS == 25

MAX_LOOKBACK_DAYS == 180

\* Values LOOKBACK_WEEKS and LOOKAHEAD_WEEKS are configured with: none, one
\* week, the default.
WeekConfigs == {0, 1, LOOKBACK_WEEKS}

\* Dates are day numbers; day 0 is a Monday. The anchor days start at a Monday
\* late enough for every window to start after day 0.
FirstAnchorDay == 210

\* The anchor days run over this many days after the first.
MaxAnchorOffset == 13

AnchorDays == FirstAnchorDay..(FirstAnchorDay + MaxAnchorOffset)

\* date.weekday(): Monday is 0, Sunday is 6.
weekday(d) == d % 7

\* A week alignment that leaves the raw start where it is.
days_to_sunday_none(raw_start) == 0

\* (6 - raw_start.weekday()) % 7
days_to_sunday(raw_start) == (6 - weekday(raw_start)) % 7

get_poll_window(is_first_run, today, lookback_weeks, lookahead_weeks) ==
    LET current_sunday == today - ((weekday(today) + 1) % 7)
        raw_start      == today - MAX_LOOKBACK_DAYS
        start_date     == IF is_first_run
                          THEN raw_start + days_to_sunday(raw_start)
                          ELSE current_sunday - 7 * lookback_weeks
        end_date       == current_sunday + 7 * lookahead_weeks + 6
    IN  [start |-> start_date, end |-> end_date]

\* A choice of mode that looks at last_sync_at alone.
IsFirstRun_ignoresForce(force_full, last_sync_at) == last_sync_at = NoLastSync

\* is_first_run = force_full or (account.last_sync_at is None)
IsFirstRun(force_full, last_sync_at) == force_full \/ last_sync_at = NoLastSync

WindowCallInit ==
    /\ HttpIdle
    /\ RunIdle
    /\ SchedIdle
    /\ callee = "get_poll_window"
    /\ args \in [last_sync_at    : {NoLastSync, FirstAnchorDay - 1},
                 force_full      : BOOLEAN,
                 scrape_day      : AnchorDays,
                 LOOKBACK_WEEKS  : WeekConfigs,
                 LOOKAHEAD_WEEKS : WeekConfigs]
    /\ ret = [done |-> FALSE, is_first_run |-> FALSE, window |-> [start |-> 0, end |-> 0]]

\* run_insights_poller computes is_first_run and calls
\* get_poll_window(is_first_run=is_first_run, today=scrape_day).
WindowSelect ==
    /\ callee = "get_poll_window"
    /\ ~ret.done
    /\ LET is_first_run == IsFirstRun(args.force_full, args.last_sync_at)
       IN  ret' = [done         |-> TRUE,
                   is_first_run |-> is_first_run,
                   window       |-> get_poll_window(is_first_run, args.scrape_day,
                                                    args.LOOKBACK_WEEKS, args.LOOKAHEAD_WEEKS)]
    /\ UNCHANGED <<callee, args>>
    /\ UNCHANGED <<httpVars, runVars, schedVars>>

SpecWindow == WindowCallInit /\ [][WindowSelect]_vars

(***************************************************************************)
(* parse_all: the three pivots of sync_airbnb/parsers/insights.py          *)
(***************************************************************************)

\* The number of chunks handed to one call of parse_all.
MaxChunks == 2

\* coerce_number on a raw value, written <<type, number>>: None stays None,
\* a number is returned, a string is turned into the number it spells or,
\* when it spells none (written with a negative number), into None, and
\* anything else becomes None.
coerce_number(val) ==
    IF val[1] = "none" THEN <<"none", 0>>
    ELSE IF val[1] = "num" THEN val
    ELSE IF val[1] = "str" THEN (IF val[2] >= 0 THEN <<"num", val[2]>> ELSE <<"none", 0>>)
    ELSE <<"none", 0>>

\* "your" if "your" in tag.lower() else "similar"
tag_key(tag) == IF tag \in {"Your listing", "your listing"} THEN "your" ELSE "similar"

\* pivoted_rows[key] of a defaultdict(dict): the row of the key, an empty
\* dict for a key not seen before.
RowOf(rows, key) ==
    IF \E i \in 1..Len(rows) : rows[i].key = key
    THEN rows[CHOOSE i \in 1..Len(rows) : rows[i].key = key].row
    ELSE <<>>

\* The dict of rows after the row of the key received its writes: a new key
\* is inserted last.
RowsPut(rows, key, row) ==
    IF \E i \in 1..Len(rows) : rows[i].key = key
    THEN [i \in 1..Len(rows) |-> IF rows[i].key = key THEN [key |-> key, row |-> row]
                                                       ELSE rows[i]]
    ELSE Append(rows, [key |-> key, row |-> row])

\* list(pivoted_rows.values())
RowValues(rows) == [i \in 1..Len(rows) |-> rows[i].row]

\* One iteration of the loop over chunk["timeseries_rows"] of
\* _extract_chart_timeseries_rows. A column name f"{a}_{b}_value" is the tuple
\* of its parts.
ChartRowStep(rows, meta, row) ==
    LET key   == <<meta.listing_id, row.ds>>
        base  == RowOf(rows, key)
        base1 == IF Len(base) = 0
                 THEN DictUpdate(base, << Pair(<<"airbnb_listing_id">>, meta.listing_id),
                                          Pair(<<"airbnb_internal_name">>, meta.listing_name),
                                          Pair(<<"date">>, row.ds) >>)
                 ELSE base
        col   == <<meta.group_values[1], tag_key(row.source_label)>>
    IN  RowsPut(rows, key,
                DictUpdate(base1, << Pair(col \o <<"value">>, coerce_number(row.value)),
                                     Pair(col \o <<"value_string">>, row.value_string) >>))

RECURSIVE ChartRowLoop(_, _, _)
ChartRowLoop(rows, meta, trows) ==
    IF trows = <<>> THEN rows
    ELSE ChartRowLoop(ChartRowStep(rows, meta, Head(trows)), meta, Tail(trows))

RECURSIVE ChartTimeseriesLoop(_, _)
ChartTimeseriesLoop(rows, chunk_list) ==
    IF chunk_list = <<>> THEN rows
    ELSE LET chunk == Head(chunk_list)
         IN  IF chunk.meta.query_type # "ChartQuery"
             THEN ChartTimeseriesLoop(rows, Tail(chunk_list))
             ELSE ChartTimeseriesLoop(ChartRowLoop(rows, chunk.meta, chunk.timeseries_rows),
                                      Tail(chunk_list))

extract_chart_timeseries_rows(chunk_list) == RowValues(ChartTimeseriesLoop(<<>>, chunk_list))

\* Variant of WindowRowIdentity: the identity columns are written at every
\* encounter of the key.
WindowRowIdentity_everyChunk(row, meta) ==
    DictUpdate(row, << Pair(<<"airbnb_listing_id">>, meta.listing_id),
                       Pair(<<"airbnb_internal_name">>, meta.listing_name),
                       Pair(<<"window_start">>, meta.window_start),
                       Pair(<<"window_end">>, meta.window_end) >>)

\* The identity columns a summary or overview row receives on the first
\* encounter of its key.
WindowRowIdentity(row, meta) ==
    IF Len(row) = 0
    THEN DictUpdate(row, << Pair(<<"airbnb_listing_id">>, meta.listing_id),
                            Pair(<<"airbnb_internal_name">>, meta.listing_name),
                            Pair(<<"window_start">>, meta.window_start),
                            Pair(<<"window_end">>, meta.window_end) >>)
    ELSE row

\* The writes of one metric of a summary or overview row.
RECURSIVE MetricWrites(_, _)
MetricWrites(row, metrics) ==
    IF metrics = <<>> THEN row
    ELSE LET m == Head(metrics)
         IN  MetricWrites(DictUpdate(row, << Pair(<<m.metric_name, "value">>, coerce_number(m.value)),
                                             Pair(<<m.metric_name, "value_string">>, m.value_string) >>),
                          Tail(metrics))

\* The four writes of chunk["primary_metric"], when the chunk has one.
PrimaryWrites(row, primary) ==
    IF primary = <<>> THEN row
    ELSE LET m == primary[1]
         IN  DictUpdate(row, << Pair(<<m.metric_name, "value">>, coerce_number(m.value)),
                                Pair(<<m.metric_name, "value_string">>, m.value_string),
                                Pair(<<m.metric_name, "value_change">>, coerce_number(m.value_change)),
                                Pair(<<m.metric_name, "value_change_string">>, m.value_change_string) >>)

RECURSIVE ChartSummaryLoop(_, _)
ChartSummaryLoop(rows, chunk_list) ==
    IF chunk_list = <<>> THEN rows
    ELSE LET chunk == Head(chunk_list)
             meta  == chunk.meta
             key   == <<meta.listing_id, meta.window_start, meta.window_end>>
         IN  IF meta.query_type # "ChartQuery"
             THEN ChartSummaryLoop(rows, Tail(chunk_list))
             ELSE ChartSummaryLoop(
                      RowsPut(rows, key,
                              MetricWrites(PrimaryWrites(WindowRowIdentity(RowOf(rows, key), meta),
                                                         chunk.primary_metric),
                                           chunk.secondary_metrics)),
                      Tail(chunk_list))

extract_chart_summary_metrics(chunk_list) == RowValues(ChartSummaryLoop(<<>>, chunk_list))

RECURSIVE ListOfMetricsLoop(_, _)
ListOfMetricsLoop(rows, chunk_list) ==
    IF chunk_list = <<>> THEN rows
    ELSE LET chunk == Head(chunk_list)
             meta  == chunk.meta
             key   == <<meta.listing_id, meta.window_start, meta.window_end>>
         IN  IF meta.query_type # "ListOfMetricsQuery"
             THEN ListOfMetricsLoop(rows, Tail(chunk_list))
             ELSE ListOfMetricsLoop(
                      RowsPut(rows, key,
                              MetricWrites(WindowRowIdentity(RowOf(rows, key), meta),
                                           chunk.timeseries_rows)),
                      Tail(chunk_list))

extract_list_of_metrics(chunk_list) == RowValues(ListOfMetricsLoop(<<>>, chunk_list))

parse_all(chunk_list) ==
    [chart_query     |-> extract_chart_timeseries_rows(chunk_list),
     chart_summary   |-> extract_chart_summary_metrics(chunk_list),
     list_of_metrics |-> extract_list_of_metrics(chunk_list)]

\* The raw values and their value strings that the flattened rows carry.
RawValues ==
    {[value |-> <<"num", 1>>, value_string |-> "1"],
     [value |-> <<"str", 2>>, value_string |-> "2"]}

\* The chunks of ChartQuery answers: one daily row, and the primary metric of
\* the window.
ChartChunks ==
    {[meta |-> [query_type |-> "ChartQuery", listing_id |-> l, listing_name |-> n,
                group_values |-> <<c[1]>>, window_start |-> 0, window_end |-> 27],
      timeseries_rows   |-> << [ds |-> d, source_label |-> c[2], value |-> v.value,
                                value_string |-> v.value_string] >>,
      primary_metric    |-> << [metric_name |-> c[1], value |-> v.value,
                                value_string |-> v.value_string, value_change |-> <<"none", 0>>,
                                value_change_string |-> "0"] >>,
      secondary_metrics |-> <<>>] :
        l \in 1..2, n \in {"Loft", "Cabin"}, d \in 0..1, v \in RawValues,
        c \in {<<"p3_impressions", "Your listing">>, <<"p3_impressions", "Similar listings">>}}

\* The chunks of ListOfMetricsQuery answers: one metric of the window.
ListOfMetricsChunks ==
    {[meta |-> [query_type |-> "ListOfMetricsQuery", listing_id |-> l, listing_name |-> n,
                window_start |-> 0, window_end |-> 6],
      timeseries_rows |-> << [metric_name |-> m, value |-> v.value,
                              value_string |-> v.value_string] >>] :
        l \in 1..2, n \in {"Loft", "Cabin"}, v \in RawValues,
        m \in {"p3_impressions", "conversion_rate"}}

RECURSIVE ChunkLists(_)
ChunkLists(n) ==
    IF n = 0 THEN {<<>>}
    ELSE ChunkLists(n - 1)
         \cup {Append(cs, c) : cs \in {x \in ChunkLists(n - 1) : Len(x) = n - 1},
                               c \in ChartChunks \cup ListOfMetricsChunks}

PivotCallInit ==
    /\ HttpIdle
    /\ RunIdle
    /\ SchedIdle
    /\ callee = "parse_all"
    /\ args \in {[chunks |-> cs] : cs \in ChunkLists(MaxChunks)}
    /\ ret = [done |-> FALSE, chart_query |-> <<>>, chart_summary |-> <<>>,
              list_of_metrics |-> <<>>]

\* AirbnbSync.parse_all: parse_all(self._parsed_chunks).
ParseAll ==
    /\ callee = "parse_all"
    /\ ~ret.done
    /\ ret' = [done |-> TRUE] @@ parse_all(args.chunks)
    /\ UNCHANGED <<callee, args>>
    /\ UNCHANGED <<httpVars, runVars, schedVars>>

SpecPivot == PivotCallInit /\ [][ParseAll]_vars

(***************************************************************************)
(* get_first_component on the JSON of a response                           *)
(* (sync_airbnb/flatteners/utils.py)                                       *)
(***************************************************************************)

\* The length of the top-level errors list.
MaxErrors == 2

\* The errors lists. Their entries: with errorType authentication_required in
\* the extensions, with another errorType, without extensions.
RECURSIVE ErrorLists(_)
ErrorLists(n) ==
    IF n = 0 THEN {<<>>}
    ELSE ErrorLists(n - 1)
         \cup {Append(es, e) : es \in {x \in ErrorLists(n - 1) : Len(x) = n - 1},
                               e \in {"authentication_required", "other_error_type",
                                      "no_extensions"}}

\* The JSON of a GraphQL response, one field per key on the path data ->
\* porygon -> getPerformanceComponents -> components: a key is absent, null
\* or has a value; the keys below a key that holds no dict are written
\* "absent". The errors key is absent or holds a list of error objects.
ResponseJsons ==
    {[errors |-> e, data |-> d[1], porygon |-> d[2], getPerformanceComponents |-> d[3],
      components |-> d[4]] :
        e \in {[key |-> "absent", items |-> <<>>]}
              \cup {[key |-> "list", items |-> es] : es \in ErrorLists(MaxErrors)},
        d \in {<<"absent", "absent", "absent", "absent">>,
               <<"null", "absent", "absent", "absent">>,
               <<"dict", "absent", "absent", "absent">>,
               <<"dict", "null", "absent", "absent">>,
               <<"dict", "dict", "absent", "absent">>,
               <<"dict", "dict", "null", "absent">>}
              \cup {<<"dict", "dict", "dict", c>> :
                        c \in {"absent", "null", "empty_list", "first_null", "first_dict"}}}

\* Variant of ContainerIsNull: an absent container counts as well.
ContainerIsNull_orAbsent(response) ==
    response.getPerformanceComponents \in {"null", "absent"}

\* "getPerformanceComponents" in porygon and porygon["getPerformanceComponents"] is None
ContainerIsNull(response) == response.getPerformanceComponents = "null"

\* The try block: response.get("data", {}).get("porygon", {})
\* .get("getPerformanceComponents", {}).get("components", [{}])[0], and
\* "component or {}"; every exception of the descent becomes ValueError.
FirstComponentDescent(response) ==
    IF \/ response.data = "null"
       \/ response.porygon = "null"
       \/ response.getPerformanceComponents = "null"
       \/ response.components \in {"null", "empty_list"}
    THEN Raised("ValueError", "Could not resolve component structure")
    ELSE IF response.components = "first_dict"
    THEN [kind |-> "return", type |-> "dict", msg |-> "component"]
    ELSE [kind |-> "return", type |-> "dict", msg |-> "empty"]

\* get_first_component on the JSON of a response. Testing membership in a
\* data or porygon that is null raises TypeError before the try block is
\* reached.
get_first_component_json(response) ==
    LET auth_error == \E i \in 1..Len(response.errors.items) :
                          response.errors.items[i] = "authentication_required"
    IN  IF ~auth_error /\ response.data = "null"
        THEN Raised("TypeError", "argument of type 'NoneType' is not iterable")
        ELSE IF ~auth_error /\ response.data = "dict" /\ response.porygon = "null"
        THEN Raised("TypeError", "argument of type 'NoneType' is not iterable")
        ELSE IF \/ auth_error
                \/ /\ response.data = "dict"
                   /\ response.porygon = "dict"
                   /\ ContainerIsNull(response)
        THEN Raised("AirbnbAuthError", "Airbnb authentication failed")
        ELSE FirstComponentDescent(response)

ComponentCallInit ==
    /\ HttpIdle
    /\ RunIdle
    /\ SchedIdle
    /\ callee = "get_first_component"
    /\ args \in {[response |-> r] : r \in ResponseJsons}
    /\ ret = [done |-> FALSE, out |-> NoResult]

GetFirstComponent ==
    /\ callee = "get_first_component"
    /\ ~ret.done
    /\ ret' = [done |-> TRUE, out |-> get_first_component_json(args.response)]
    /\ UNCHANGED <<callee, args>>
    /\ UNCHANGED <<httpVars, runVars, schedVars>>

SpecComponent == ComponentCallInit /\ [][GetFirstComponent]_vars

(***************************************************************************)
(* Claims about the retrying request client (SpecHttp)                     *)
(***************************************************************************)

AuthAttempt(i) == hist[i].msg = "Auth error"

RetryableOutcome(o) == o.msg \in {"Rate limit error", "Retryable error", "Request failed"}

StructurallyFatal(r) ==
    /\ r.net
    /\ \/ r.status \notin SuccessStatuses /\ r.status \notin BodyBlind
       \/ r.status \in SuccessStatuses /\ r.body # "has_data"

AttemptAnswered == hpc \in {"waiting", "returned", "raised"}

\* C8: an attempt answered with 401 or 403 ends the call at once with the
\* fatal authentication error AirbnbAuthError; no attempt follows it.
C8_AuthFailsWithoutRetry ==
    \A i \in 1..Len(hist) :
        AuthAttempt(i) =>
            /\ i = Len(hist)
            /\ hpc = "raised"
            /\ hresult.type = "AirbnbAuthError"

\* C9: a request is re-sent only after a retryable outcome (429, 5xx, network
\* failure), at most 5 attempts are made, and five retryable failures end in
\* the error of the fifth attempt.
C9_RetryOnlyRetryableAtMostFive ==
    /\ \A i \in 1..(Len(hist) - 1) : RetryableOutcome(hist[i])
    /\ tries <= 5
    /\ (tries = 5 /\ \A i \in 1..5 : RetryableOutcome(hist[i]))
          => (hpc = "raised" /\ hresult = hist[5])

\* C10: a response that is structurally wrong (a non-success status outside
\* 401/403/429/5xx, or a success without a JSON object carrying "data") makes
\* the call raise AirbnbRequestError, hand back no body, and not retry.
C10_StructuralErrorIsFatal ==
    (AttemptAnswered /\ StructurallyFatal(lastResp)) =>
        /\ hpc = "raised"
        /\ hresult.kind = "raise"
        /\ hresult.type = "AirbnbRequestError"

(***************************************************************************)
(* Claims about one run of run_insights_poller (Spec)                      *)
(***************************************************************************)

RunOver == pc \in {"returned", "raised"}

\* The listing loop ran to its end: the run is at or past the cookie write.
LoopFinished ==
    /\ Len(listings) > 0
    /\ \/ pc \in {"cookies", "stamp", "returned"}
       \/ pc = "raised" /\ runErr.at \in {"cookies", "last_sync"}

\* Loop positions at which a non-authentication exception was raised: those
\* that reached the loop's handler and those raised by a metric call.
NonAuthFailedAt ==
    {handled[i].at : i \in {j \in 1..Len(handled) : handled[j].type # "AirbnbAuthError"}}
    \cup pollFailAt

HasErrorEntry(k) ==
    \E i \in 1..Len(results.errors) :
        /\ results.errors[i].listing_id = listings[k].id
        /\ results.errors[i].listing_name = listings[k].name

NothingPersisted ==
    /\ dbChart = {}
    /\ dbLom = {}
    /\ storeLog = <<>>
    /\ dbCookie = account.airbnb_cookie
    /\ dbLastSync = account.last_sync_at

\* C1: once the upstream signals an authentication failure while listing k is
\* processed (401/403 on a metric call, or the marker / null container in the
\* envelope), the run is over with AirbnbAuthError at the caller and the loop
\* never moves past listing k.
C1_AuthFailureAbortsRun ==
    firstAuthAt # 0 =>
        /\ pc = "raised"
        /\ runErr.type = "AirbnbAuthError"
        /\ idx = firstAuthAt

\* C3: a non-authentication exception raised while listing k is processed
\* never ends the run inside the loop: the loop goes on past k, and a run that
\* is over has processed every listing of the sorted order.
C3_FaultIsolation ==
    \A k \in NonAuthFailedAt :
        /\ ~(pc = "raised" /\ runErr.at = "listing")
        /\ idx >= k
        /\ RunOver => /\ idx = Len(listings)
                      /\ results.succeeded + results.failed = Len(listings)

\* A three-listing run in which the first listing raised a non-authentication
\* exception in the loop body and the two listings after it succeeded.
C3_Witness ==
    /\ pc = "returned"
    /\ Len(listings) = 3
    /\ Len(handled) = 1
    /\ handled[1].at = 1
    /\ handled[1].type # "AirbnbAuthError"
    /\ results.failed = 1
    /\ results.succeeded = 2
    /\ dbChart = {listings[2].id, listings[3].id}

\* C4: a listing whose polling raised a non-authentication error is, once the
\* loop has left it, counted as failed with an entry in errors, so the number
\* of listings counted as succeeded leaves every such listing out.
C4_PollFailureCountedFailed ==
    \A k \in pollFailAt :
        (k < idx \/ LoopFinished) =>
            /\ HasErrorEntry(k)
            /\ results.succeeded <= Len(listings) - Cardinality(pollFailAt \cap 1..k)

\* C5: after an authentication error was raised while a listing was processed,
\* neither update_account_cookies nor update_last_sync is called: the stored
\* cookie string and last_sync_at stay what they were when the run started.
C5_AuthAbortWritesNothing ==
    firstAuthAt # 0 =>
        /\ storeLog = <<>>
        /\ dbCookie = account.airbnb_cookie
        /\ dbLastSync = account.last_sync_at

\* C7: when create_preflight_session raises, the run is over with that very
\* error at the caller, no discovery or metric request was issued, and nothing
\* was persisted.
C7_PreflightFailureReraised ==
    preflightErr # "none" =>
        /\ pc = "raised"
        /\ runErr = [type |-> preflightErr, at |-> "preflight"]
        /\ requests = NoRequests
        /\ NothingPersisted

\* C6: whenever the listing loop has finished and the run is over, the run
\* has written the evolved cookie string once and stamped last_sync_at once,
\* however many listings failed.
C6_CookiesAndStampOnceEach ==
    (LoopFinished /\ RunOver) =>
        /\ storeLog = <<"cookies_written", "last_sync_stamped">>
        /\ dbCookie = build_cookie_string(filter_auth_cookies_only(jar))
        /\ dbLastSync = StampedNow

\* C6, amended: whenever the listing loop has finished, however many listings
\* failed, update_account_cookies is called exactly once; when that write
\* succeeds update_last_sync is called exactly once after it; a run that
\* returns has stored the evolved auth cookies and, unless INSIGHTS_DRY_RUN is
\* set, stamped last_sync_at; a run that does not return failed in one of the
\* two writes and left the field of the failed write as it was.
C6_CookiesThenStampUnlessDryRunOrWriteFails ==
    (LoopFinished /\ RunOver) =>
        IF pc = "returned"
        THEN /\ storeLog = <<"cookies_written",
                             IF dryRun THEN "last_sync_dry_run" ELSE "last_sync_stamped">>
             /\ dbCookie = build_cookie_string(filter_auth_cookies_only(jar))
             /\ dbLastSync = IF dryRun THEN account.last_sync_at ELSE StampedNow
        ELSE \/ /\ storeLog = <<"cookies_failed">>
                /\ dbCookie = account.airbnb_cookie
                /\ dbLastSync = account.last_sync_at
             \/ /\ storeLog = <<"cookies_written", "last_sync_failed">>
                /\ dbCookie = build_cookie_string(filter_auth_cookies_only(jar))
                /\ dbLastSync = account.last_sync_at

\* A run whose listings all failed, two of them at least, returned with the
\* evolved cookies stored and last_sync_at stamped.
C6_Witness ==
    /\ pc = "returned"
    /\ ~dryRun
    /\ Len(listings) >= 2
    /\ results.failed = Len(listings)
    /\ results.succeeded = 0
    /\ storeLog = <<"cookies_written", "last_sync_stamped">>
    /\ dbCookie # account.airbnb_cookie
    /\ dbLastSync = StampedNow

\* C11: in every state of a run succeeded + failed <= total_listings and
\* errors has one entry per failed listing; no listing is counted twice (inside
\* the loop exactly the listings before the current one are counted, and the
\* errors entries are of distinct listings); a run that returns after a
\* non-empty discovery has counted every listing.
C11_ResultCounts ==
    /\ results.succeeded + results.failed <= results.total_listings
    /\ Len(results.errors) = results.failed
    /\ \A i, j \in 1..Len(results.errors) :
          i # j => results.errors[i].listing_id # results.errors[j].listing_id
    /\ pc \in {"listing", "poll", "persist"} => results.succeeded + results.failed = idx - 1
    /\ (pc = "returned" /\ Len(listings) > 0) =>
          /\ results.total_listings = Len(listings)
          /\ results.succeeded + results.failed = results.total_listings

\* A run over three listings returned with one failed and two succeeded.
C11_Witness ==
    /\ pc = "returned"
    /\ results.total_listings = 3
    /\ results.failed = 1
    /\ results.succeeded = 2
    /\ Len(results.errors) = 1

C20_OnlyAuthCookiesPersisted ==
    (\E i \in 1..Len(storeLog) : storeLog[i] = "cookies_written") =>
        \A k \in 1..Len(dbCookie) :
            /\ dbCookie[k].name \in
                   {"_airbed_session_id", "_aaj", "_aat", "auth_jitney_session_id", "hli",
                    "li", "_user_attributes", "_pt", "rclu"}
            /\ dbCookie[k].name \notin {"ak_bmsc", "bm_sv", "bm_sz"}

\* A run wrote its cookies from a jar that held the three Akamai cookies and
\* an analytics cookie beside the auth cookies.
C20_Witness ==
    /\ \E i \in 1..Len(storeLog) : storeLog[i] = "cookies_written"
    /\ \A n \in {"ak_bmsc", "bm_sv", "bm_sz", "_ga"} : \E k \in 1..Len(jar) : jar[k].name = n
    /\ \A n \in {"_airbed_session_id", "_aaj"} :
           \E k \in 1..Len(dbCookie) : dbCookie[k].name = n

\* C23: when discovery returns an empty listing map the run returns with
\* total_listings 0, succeeded 0, failed 0 and no errors, raises nothing and
\* has issued no metric query.
C23_EmptyListingMapReturnsZeroCounts ==
    [][(pc = "discover" /\ runErr' = runErr /\ listings' = <<>>) =>
           /\ pc' = "returned"
           /\ results' = [total_listings |-> 0, succeeded |-> 0, failed |-> 0, errors |-> <<>>]
           /\ runErr' = [type |-> "none", at |-> "none"]
           /\ requests'.metric = 0]_vars

\* A run returned after its one discovery request gave an empty map.
C23_Witness ==
    /\ pc = "returned"
    /\ listings = <<>>
    /\ requests = [discovery |-> 1, metric |-> 0]
    /\ results.total_listings = 0

\* C24: within one run every metric call is issued after a think-time delay
\* since the API call before it, between the calls of one listing as well as
\* between two listings.
C24_DelayBeforeEveryMetricCall ==
    [][requests'.metric > requests.metric => sinceRequest = "delay"]_vars

\* C25: a failed (sub-window, metric) call of a listing skips only that
\* call: the loop goes on to the next pair with the chunks gathered so far,
\* and the listing reaches parse_all after all of its pairs were polled.
C25_FailedCallSkipsOnlyItself ==
    [][pc = "poll" =>
           /\ pc' \in {"poll", "persist"}
           /\ idx' = idx
           /\ Len(chunks') \in {Len(chunks), Len(chunks) + 1}
           /\ SubSeq(chunks', 1, Len(chunks)) = chunks
           /\ pc' = "persist" =>
                  LET days       == window.end - window.start + 1
                      Windows(n) == (days + n - 1) \div n
                  IN  requests'.metric = idx * (Windows(28) * 1 + Windows(7) * 2)]_vars

\* A listing reached parse_all with chunks although one of its metric calls
\* had failed.
C25_Witness ==
    /\ pc = "persist"
    /\ idx \in pollFailAt
    /\ Len(chunks) >= 1
    /\ requests.metric = 3 * idx

\* C26: the sync_jobs_active gauge counts the runs in flight: it is 1 while
\* the run is inside run_insights_poller and back at its initial value 0 once
\* the run has ended, whichever exit the run took.
C26_GaugeCountsRunsInFlight ==
    /\ pc \in {"returned", "raised"} => jobsActive = 0
    /\ pc \notin {"idle", "returned", "raised"} => jobsActive = 1

\* C27: a run that returned a result has stamped last_sync_at, so that the
\* account is not taken for never synced afterwards.
C27_ReturnedRunHasStamped ==
    pc = "returned" => dbLastSync = 2

\* C28: persistence is all-or-nothing per listing: no metric table holds a
\* row, written by this run, of a listing that the result records as failed.
C28_FailedListingWroteNoRows ==
    \A i \in 1..Len(results.errors) :
        results.errors[i].listing_id \notin dbChart \cup dbLom

\* C29: the chunk accumulator is empty when the polling of a listing starts,
\* whatever happened to the listing before it, and while a listing is polled
\* and parsed every chunk in it carries the id of that listing.
C29_AccumulatorHoldsOnlyCurrentListing ==
    /\ pc = "listing" => chunks = <<>>
    /\ pc \in {"poll", "persist"} =>
           \A i \in 1..Len(chunks) : chunks[i].listing_id = listings[idx].id

\* The second listing is being polled and has a chunk, after the first one
\* failed with chunks in the accumulator.
C29_Witness ==
    /\ pc = "poll"
    /\ idx = 2
    /\ Len(chunks) >= 1
    /\ results.failed = 1
    /\ 1 \notin pollFailAt
    /\ firstAuthAt = 0

(***************************************************************************)
(* Claims about the service process (SpecSched)                            *)
(***************************************************************************)

\* C2: at most one run of run_insights_poller is in flight for the account at
\* any time, whichever of the startup thread, the cron job and the manual
\* trigger threads started it.
C2_AtMostOneRunInFlight == Cardinality(InFlight) <= 1

C15_SubWindowsTileRange ==
    LET w == ret.windows
        n == Len(w)
    IN  /\ \A i \in 1..n : w[i].start <= w[i].end /\ w[i].end <= args.end_date
        /\ n > 0 => w[1].start = args.start_date
        /\ \A i \in 1..(n - 1) :
              /\ w[i + 1].start = w[i].end + 1
              /\ w[i].end - w[i].start + 1 = args.window_size_days
        /\ ret.done =>
              /\ n > 0
              /\ w[n].end = args.end_date
              /\ w[n].end - w[n].start + 1 <= args.window_size_days

\* Days 1 to 20 in windows of 7 days: (1,7), (8,14), (15,20).
C15_Witness ==
    /\ args = [start_date |-> 1, end_date |-> 20, window_size_days |-> 7]
    /\ ret.done
    /\ ret.windows = << [start |-> 1, end |-> 7], [start |-> 8, end |-> 14],
                        [start |-> 15, end |-> 20] >>

(***************************************************************************)
(* Claims about the polling window (SpecWindow)                            *)
(***************************************************************************)

\* C16: in both modes the window starts on a Sunday, ends on a Saturday and
\* contains the anchor day; a first-run window starts within the 180 days
\* before the anchor day; an incremental window spans exactly
\* (LOOKBACK_WEEKS + LOOKAHEAD_WEEKS + 1) * 7 days.
C16_WindowAlignedAndSized ==
    ret.done =>
        LET w     == ret.window
            today == args.scrape_day
        IN  /\ w.start % 7 = 6
            /\ w.end % 7 = 5
            /\ w.start <= today
            /\ today <= w.end
            /\ ret.is_first_run => (today - 180 <= w.start /\ w.start <= today)
            /\ ~ret.is_first_run =>
                  w.end - w.start + 1 = (args.LOOKBACK_WEEKS + args.LOOKAHEAD_WEEKS + 1) * 7

\* A first-run window for an anchor day that is a Wednesday, under the default
\* configuration.
C16_Witness ==
    /\ ret.done
    /\ ret.is_first_run
    /\ args.scrape_day % 7 = 2
    /\ args.LOOKBACK_WEEKS = 25
    /\ args.LOOKAHEAD_WEEKS = 25
    /\ ret.window.start = args.scrape_day - 178
    /\ ret.window.end = args.scrape_day + 178

\* C17: the run takes the first-run window exactly when last_sync_at is absent
\* or force_full is set, and the incremental window otherwise, both computed
\* from the run's scrape day: the first-run window starts on the first Sunday
\* not earlier than scrape_day - 180, the incremental one LOOKBACK_WEEKS weeks
\* before the Sunday of the scrape day's week, and both end on the Saturday
\* LOOKAHEAD_WEEKS weeks after that week's Sunday.
C17_FirstRunIffNeverSyncedOrForced ==
    ret.done =>
        LET today  == args.scrape_day
            first  == args.last_sync_at = NoLastSync \/ args.force_full
            sunday == CHOOSE d \in (today - 6)..today : d % 7 = 6
            capped == CHOOSE d \in (today - 180)..(today - 174) : d % 7 = 6
        IN  /\ ret.is_first_run = first
            /\ ret.window.start = IF first THEN capped ELSE sunday - 7 * args.LOOKBACK_WEEKS
            /\ ret.window.end = sunday + 7 * args.LOOKAHEAD_WEEKS + 6

\* An account that synced before is run with force_full: the window is the
\* first-run one, which differs from the incremental one of one week back.
C17_Witness ==
    /\ ret.done
    /\ args.force_full
    /\ args.last_sync_at # NoLastSync
    /\ args.LOOKBACK_WEEKS = 1
    /\ ret.is_first_run
    /\ ret.window.start < args.scrape_day - 170
    /\ ret.window # get_poll_window(FALSE, args.scrape_day, args.LOOKBACK_WEEKS, args.LOOKAHEAD_WEEKS)

\* C18: under the default configuration the incremental window never starts
\* earlier than the first-run window of the same anchor day and never more
\* than 180 days before the anchor day.
C18_IncrementalLookbackWithinFirstRun ==
    (ret.done /\ ~ret.is_first_run /\ args.LOOKBACK_WEEKS = 25) =>
        /\ ret.window.start >= get_poll_window(TRUE, args.scrape_day,
                                               args.LOOKBACK_WEEKS, args.LOOKAHEAD_WEEKS).start
        /\ args.scrape_day - ret.window.start <= 180

(***************************************************************************)
(* Claims about parse_all (SpecPivot)                                      *)
(***************************************************************************)

\* C21: each pivot of parse_all yields exactly one row per distinct key of its
\* input chunks ((listing, date) for the time series, (listing, window_start,
\* window_end) for summary and overview); the identity columns of a row are
\* those of the first chunk with the key, and a metric column written by
\* several chunks of the key holds the value of the last of them.
C21_PivotFirstIdentityLastMetric ==
    ret.done =>
        LET cs == args.chunks
            Idx(qt) == {i \in 1..Len(cs) : cs[i].meta.query_type = qt}
            Has(row, name) == \E x \in 1..Len(row) : row[x].name = name
            Col(row, name) == row[CHOOSE x \in 1..Len(row) : row[x].name = name].value
            WindowKey(i) == <<cs[i].meta.listing_id, cs[i].meta.window_start,
                              cs[i].meta.window_end>>
            \* every write of a pivot: its place in the input order, its key,
            \* the listing name of its chunk, the metric column and the value
            TsWrites ==
                UNION {{[ord |-> <<i, j>>,
                         key |-> <<cs[i].meta.listing_id, cs[i].timeseries_rows[j].ds>>,
                         name |-> cs[i].meta.listing_name,
                         col |-> <<cs[i].meta.group_values[1],
                                   tag_key(cs[i].timeseries_rows[j].source_label)>>,
                         value_string |-> cs[i].timeseries_rows[j].value_string] :
                            j \in 1..Len(cs[i].timeseries_rows)} : i \in Idx("ChartQuery")}
            SummaryWrites ==
                UNION {{[ord |-> <<i, j>>, key |-> WindowKey(i),
                         name |-> cs[i].meta.listing_name,
                         col |-> <<(cs[i].primary_metric \o cs[i].secondary_metrics)[j].metric_name>>,
                         value_string |->
                             (cs[i].primary_metric \o cs[i].secondary_metrics)[j].value_string] :
                            j \in 1..Len(cs[i].primary_metric \o cs[i].secondary_metrics)} :
                       i \in Idx("ChartQuery")}
            OverviewWrites ==
                UNION {{[ord |-> <<i, j>>, key |-> WindowKey(i),
                         name |-> cs[i].meta.listing_name,
                         col |-> <<cs[i].timeseries_rows[j].metric_name>>,
                         value_string |-> cs[i].timeseries_rows[j].value_string] :
                            j \in 1..Len(cs[i].timeseries_rows)} : i \in Idx("ListOfMetricsQuery")}
            Before(a, b) == a[1] < b[1] \/ (a[1] = b[1] /\ a[2] <= b[2])
            TsKey(row) == <<Col(row, <<"airbnb_listing_id">>), Col(row, <<"date">>)>>
            WKey(row) == <<Col(row, <<"airbnb_listing_id">>), Col(row, <<"window_start">>),
                           Col(row, <<"window_end">>)>>
            PivotOk(rows, RowKey(_), writes) ==
                /\ Len(rows) = Cardinality({w.key : w \in writes})
                /\ \A w \in writes : \E r \in 1..Len(rows) : RowKey(rows[r]) = w.key
                /\ \A r \in 1..Len(rows) : \A w \in writes :
                       RowKey(rows[r]) = w.key =>
                           /\ (\A v \in writes : v.key = w.key => Before(w.ord, v.ord))
                                  => Col(rows[r], <<"airbnb_internal_name">>) = w.name
                           /\ (\A v \in writes : v.key = w.key /\ v.col = w.col
                                                     => Before(v.ord, w.ord))
                                  => /\ Has(rows[r], w.col \o <<"value_string">>)
                                     /\ Col(rows[r], w.col \o <<"value_string">>) = w.value_string
        IN  /\ PivotOk(ret.chart_query, TsKey, TsWrites)
            /\ PivotOk(ret.chart_summary, WKey, SummaryWrites)
            /\ PivotOk(ret.list_of_metrics, WKey, OverviewWrites)

\* Two chunks of the same listing and window with different listing names
\* and different values of the same metric were pivoted into one row.
C21_Witness ==
    /\ ret.done
    /\ Len(args.chunks) = 2
    /\ args.chunks[1].meta.query_type = "ListOfMetricsQuery"
    /\ args.chunks[2].meta.query_type = "ListOfMetricsQuery"
    /\ args.chunks[1].meta.listing_id = args.chunks[2].meta.listing_id
    /\ args.chunks[1].meta.listing_name # args.chunks[2].meta.listing_name
    /\ args.chunks[1].timeseries_rows[1].metric_name
           = args.chunks[2].timeseries_rows[1].metric_name
    /\ args.chunks[1].timeseries_rows[1].value_string
           # args.chunks[2].timeseries_rows[1].value_string
    /\ Len(ret.list_of_metrics) = 1

(***************************************************************************)
(* Claims about get_first_component (SpecComponent)                        *)
(***************************************************************************)

\* C22: get_first_component raises AirbnbAuthError exactly when the top-level
\* errors list holds an authentication_required marker or data.porygon has
\* the key getPerformanceComponents set to null; a response whose container
\* is merely absent is not classified as an authentication failure.
C22_AuthErrorIffMarkerOrNullContainer ==
    ret.done =>
        LET r == args.response
            marker == \E i \in 1..Len(r.errors.items) :
                          r.errors.items[i] = "authentication_required"
        IN  /\ (ret.out.kind = "raise" /\ ret.out.type = "AirbnbAuthError")
                   <=> (marker \/ (r.data = "dict" /\ r.porygon = "dict"
                                       /\ r.getPerformanceComponents = "null"))
            /\ (~marker /\ r.getPerformanceComponents = "absent")
                   => ~(ret.out.kind = "raise" /\ ret.out.type = "AirbnbAuthError")

\* The call on {"data": {}} returned the empty component, and so did not
\* raise.
C22_Witness ==
    /\ ret.done
    /\ args.response.errors.key = "absent"
    /\ args.response.data = "dict"
    /\ args.response.porygon = "absent"
    /\ ret.out = [kind |-> "return", type |-> "dict", msg |-> "empty"]

(***************************************************************************)
(* Claims about the calls of poll_range_and_flatten (SpecPollRange)        *)
(***************************************************************************)

\* C30: poll_range_and_flatten terminates: every pass of its window loop
\* moves current_start forward, it issues no call when start_date is after
\* end_date, and for a range of d days it makes at most
\* ceil(d / window_size_days) * len(metrics) calls.
C30_PollRangeTerminatesWithinBound ==
    /\ <>(ret.done)
    /\ [][/\ ~ret'.done => ret'.current_start > ret.current_start
          /\ args.start_date > args.end_date => ret'.calls = 0
          /\ args.start_date <= args.end_date =>
                 ret'.calls <= ((args.end_date - args.start_date + 1
                                     + args.window_size_days - 1) \div args.window_size_days)
                               * Len(args.metrics)]_vars

\* Days 1 to 20 in windows of 7 days with two metrics: the loop ended after
\* 3 passes and 6 calls.
C30_Witness ==
    /\ args.start_date = 1
    /\ args.end_date = 20
    /\ args.window_size_days = 7
    /\ Len(args.metrics) = 2
    /\ ret = [current_start |-> 21, calls |-> 6, done |-> TRUE]

====
